---------------------------- MODULE Spec2Model ----------------------------
(***************************************************************************)
(* A model of kdp/stats.py: the streaming accumulators (Welford,           *)
(* categorical, text, date) and the DatasetStatistics engine that feeds    *)
(* them batch by batch, finalizes a report and persists / reloads it.      *)
(*                                                                         *)
(* Numbers.  The float32 scalars of the Welford accumulator are modelled   *)
(* as exact rationals <<p, q>> (q > 0, lowest terms): the claims about     *)
(* mean and variance are claims "in exact arithmetic", and rounding is not *)
(* modelled.  The count n is a float32 in the code; it is an integer here  *)
(* (exact below 2^24).                                                     *)
(*                                                                         *)
(* Strings.  A tf.string / bytes / str value is a sequence of one-char     *)
(* strings, e.g. <<"T", "h", "e">>.                                        *)
(***************************************************************************)
EXTENDS Integers, Sequences, FiniteSets, TLC

VARIABLES
    welford,      \* a stand-alone WelfordAccumulator: [n, mean, M2, var]
    fedW,         \* history: every value fed to welford, in order
    lastW,        \* history: the batch of the latest update call on welford
    kind,         \* which stand-alone vocabulary accumulator is exercised
    catDtype,     \* the dtype declared for the categorical feature
    colDtype,     \* the dtype of the dataset column that is fed, fixed for
                  \* a dataset (tf.data element_spec)
    cat,          \* a stand-alone CategoricalAccumulator: [values, int_values]
    text,         \* a stand-alone TextAccumulator: [words]
    fedV,         \* history: every element fed to cat or text in a tensor of
                  \* the column's dtype, in order
    raisedV,      \* the exception the latest update on cat / text raised
    lastV,        \* history: the dtype of the tensor of that latest update
    numeric_stats,      \* DatasetStatistics: feature -> WelfordAccumulator
    categorical_stats,  \* DatasetStatistics: feature -> CategoricalAccumulator
    text_stats,         \* DatasetStatistics: feature -> TextAccumulator
    date_stats,         \* DatasetStatistics: feature -> DateAccumulator
    features_stats,     \* DatasetStatistics.features_stats: the report
    file,               \* the file at features_stats_path
    overwrite_stats,    \* DatasetStatistics.overwrite_stats
    columns,            \* the columns of the dataset read by this run
    pc,                 \* where the run is: start, pass, save, write, done, failed
    raised,             \* the exception that ended the run, "none" if none
    processed,          \* history: the batches _process_batch returned from
    startFile,          \* history: the file when this run started
    returned,           \* the report this run returned to its caller
    runs,               \* history: number of runs started
    passRan             \* history: whether this run called main()

varsW == <<welford, fedW, lastW>>

varsV == <<kind, catDtype, colDtype, cat, text, fedV, raisedV, lastV>>

varsE == <<numeric_stats, categorical_stats, text_stats, date_stats, features_stats,
           file, overwrite_stats, columns, pc, raised, processed, startFile,
           returned, runs, passRan>>

vars == <<varsW, varsV, varsE>>

-----------------------------------------------------------------------------
(* Bounds of the model *)

\* longest batch of numbers fed to a WelfordAccumulator in one update
MaxBatchLen == 3

\* total number of values fed to the stand-alone WelfordAccumulator
MaxFed == 5

\* longest batch fed to the stand-alone CategoricalAccumulator in one update
MaxCatBatch == 3

\* total number of values fed to the stand-alone CategoricalAccumulator
MaxFedCat == 5

\* most texts fed to the stand-alone TextAccumulator in one update
MaxTextBatch == 2

\* total number of texts fed to the stand-alone TextAccumulator
MaxFedTexts == 3

\* most elements accumulated by a stand-alone vocabulary accumulator when a
\* tensor of an unsupported dtype is fed to it
MaxFedReject == 2

\* most batches a dataset delivers in one pass of the engine
MaxBatches == 2

\* number of runs of the engine on the same report path
MaxRuns == 2

-----------------------------------------------------------------------------
(* Exact rational arithmetic standing for the float32 tensor operations *)

Abs(x) == IF x < 0 THEN -x ELSE x

Min(a, b) == IF a < b THEN a ELSE b

RECURSIVE GCD(_, _)
GCD(a, b) == IF b = 0 THEN a ELSE GCD(b, a % b)

\* the rational p/q in lowest terms with a positive denominator (q # 0)
Rat(p, q) ==
    LET s == IF q < 0 THEN -1 ELSE 1
        g == GCD(Abs(p), Abs(q))
    IN  <<(s * p) \div g, (s * q) \div g>>

\* tf.cast(values, tf.float32) of an integer
RInt(i) == <<i, 1>>

\* least common multiple of two positive denominators
LCM(p, q) == (p \div GCD(p, q)) * q

RAdd(a, b) ==
    LET l == LCM(a[2], b[2])
    IN  Rat(a[1] * (l \div a[2]) + b[1] * (l \div b[2]), l)
RSub(a, b) ==
    LET l == LCM(a[2], b[2])
    IN  Rat(a[1] * (l \div a[2]) - b[1] * (l \div b[2]), l)
RMul(a, b) == Rat(a[1] * b[1], a[2] * b[2])
RDiv(a, b) == Rat(a[1] * b[2], a[2] * b[1])

\* tf.reduce_sum of a tensor (a sequence of rationals); 0 for the empty tensor
RECURSIVE RSum(_)
RSum(s) == IF s = <<>> THEN <<0, 1>> ELSE RAdd(Head(s), RSum(Tail(s)))

\* tf.cast(values, tf.float32) of a tensor of integers
CastFloat(values) == [i \in 1..Len(values) |-> RInt(values[i])]

-----------------------------------------------------------------------------
(* WelfordAccumulator *)

\* __init__: n, mean, M2 and var all start at 0.0
WelfordInit == [n |-> 0, mean |-> <<0, 1>>, M2 |-> <<0, 1>>, var |-> <<0, 1>>]

\* update whose M2 term has the second factor reversed: mean - values
WelfordUpdateSignFlip(acc, values) ==
    LET n     == acc.n + Len(values)
        delta == [i \in 1..Len(values) |-> RSub(values[i], acc.mean)]
        mean1 == RAdd(acc.mean, RSum([i \in 1..Len(values) |-> RDiv(delta[i], RInt(n))]))
        M21   == RAdd(acc.M2,
                      RSum([i \in 1..Len(values) |->
                                RMul(delta[i], RSub(mean1, values[i]))]))
    IN  [acc EXCEPT !.n = n, !.mean = mean1, !.M2 = M21]

\* update that counts one per call instead of the size of the batch
WelfordUpdateCountsCalls(acc, values) ==
    LET n     == acc.n + 1
        delta == [i \in 1..Len(values) |-> RSub(values[i], acc.mean)]
        mean1 == RAdd(acc.mean, RSum([i \in 1..Len(values) |-> RDiv(delta[i], RInt(n))]))
        M21   == RAdd(acc.M2,
                      RSum([i \in 1..Len(values) |->
                                RMul(delta[i], RSub(values[i], mean1))]))
    IN  [acc EXCEPT !.n = n, !.mean = mean1, !.M2 = M21]

\* update, with M2 accumulated against the pre-batch mean only
WelfordUpdateOldMean(acc, values) ==
    LET n     == acc.n + Len(values)
        delta == [i \in 1..Len(values) |-> RSub(values[i], acc.mean)]
        mean1 == RAdd(acc.mean, RSum([i \in 1..Len(values) |-> RDiv(delta[i], RInt(n))]))
        M21   == RAdd(acc.M2,
                      RSum([i \in 1..Len(values) |-> RMul(delta[i], delta[i])]))
    IN  [acc EXCEPT !.n = n, !.mean = mean1, !.M2 = M21]

\* update(values): values is a tensor already cast to float32
WelfordUpdate(acc, values) ==
    LET n     == acc.n + Len(values)
        delta == [i \in 1..Len(values) |-> RSub(values[i], acc.mean)]
        mean1 == RAdd(acc.mean, RSum([i \in 1..Len(values) |-> RDiv(delta[i], RInt(n))]))
        M21   == RAdd(acc.M2,
                      RSum([i \in 1..Len(values) |->
                                RMul(delta[i], RSub(values[i], mean1))]))
    IN  [acc EXCEPT !.n = n, !.mean = mean1, !.M2 = M21]

\* variance that returns the mean, not var, when there are too few values
WelfordVarianceElseMean(acc) ==
    IF acc.n > 1 THEN RDiv(acc.M2, RInt(acc.n - 1)) ELSE acc.mean

\* variance with the population denominator n
WelfordVarianceN(acc) ==
    IF acc.n > 1 THEN RDiv(acc.M2, RInt(acc.n)) ELSE acc.var

\* property variance
WelfordVariance(acc) ==
    IF acc.n > 1 THEN RDiv(acc.M2, RInt(acc.n - 1)) ELSE acc.var

\* property count
WelfordCount(acc) == acc.n

-----------------------------------------------------------------------------
(* Strings: tf.string scalars, Python bytes and str as character sequences *)

\* the characters of the model, in ASCII order
Chars == <<"\t", " ", "-", "0", "1", "2", "3", "4", "5", "6", "7", "8", "9",
           "A", "B", "a", "b">>

\* position of a character in ASCII order
Ord(c) == CHOOSE i \in 1..Len(Chars) : Chars[i] = c

Digits == <<"0", "1", "2", "3", "4", "5", "6", "7", "8", "9">>

IsDigit(c) == \E i \in 1..10 : Digits[i] = c

DigitVal(c) == (CHOOSE i \in 1..10 : Digits[i] = c) - 1

\* decimal digits of a natural number
RECURSIVE NatToStr(_)
NatToStr(n) ==
    IF n < 10 THEN <<Digits[n + 1]>>
    ELSE NatToStr(n \div 10) \o <<Digits[(n % 10) + 1]>>

\* tf.strings.as_string of an int32 scalar
AsString(i) == IF i < 0 THEN <<"-">> \o NatToStr(-i) ELSE NatToStr(i)

\* value of a non-empty sequence of digits
RECURSIVE DigitsToNat(_)
DigitsToNat(s) ==
    IF Len(s) = 1 THEN DigitVal(s[1])
    ELSE 10 * DigitsToNat(SubSeq(s, 1, Len(s) - 1)) + DigitVal(s[Len(s)])

\* whether Python's int(b) accepts the bytes b: an optional sign, then digits
IntParses(s) ==
    LET body == IF s # <<>> /\ s[1] = "-" THEN Tail(s) ELSE s
    IN  /\ body # <<>>
        /\ \A i \in 1..Len(body) : IsDigit(body[i])

\* Python's int(b) of bytes b that it accepts
ParseInt(s) ==
    IF s[1] = "-" THEN -DigitsToNat(Tail(s)) ELSE DigitsToNat(s)

\* tf.unique(x)[0]: the distinct elements of x in order of first occurrence
RECURSIVE UniqueFrom(_, _)
UniqueFrom(kept, rest) ==
    IF rest = <<>> THEN kept
    ELSE IF \E i \in 1..Len(kept) : kept[i] = Head(rest)
         THEN UniqueFrom(kept, Tail(rest))
         ELSE UniqueFrom(Append(kept, Head(rest)), Tail(rest))

Unique(x) == UniqueFrom(<<>>, x)

\* list.sort() of a list of Python ints: insertion of x into an ascending list
RECURSIVE InsertInt(_, _)
InsertInt(x, sorted) ==
    IF sorted = <<>> THEN <<x>>
    ELSE IF x < Head(sorted) THEN <<x>> \o sorted
         ELSE <<Head(sorted)>> \o InsertInt(x, Tail(sorted))

RECURSIVE SortInts(_)
SortInts(l) == IF l = <<>> THEN <<>> ELSE InsertInt(Head(l), SortInts(Tail(l)))

-----------------------------------------------------------------------------
(* CategoricalAccumulator *)

\* __init__: two empty tensors, one of strings and one of int32
CategoricalInit == [values |-> <<>>, int_values |-> <<>>]

\* whether update raises ValueError: a dtype that is neither string nor int32
CategoricalRaises(new_values) == new_values.dtype \notin {"string", "int32"}

\* update that keeps the distinct values of the new batch only
CategoricalUpdateReplaces(acc, new_values) ==
    IF new_values.dtype = "string"
    THEN [acc EXCEPT !.values = Unique(new_values.data)]
    ELSE IF new_values.dtype = "int32"
         THEN [acc EXCEPT !.int_values = Unique(new_values.data)]
         ELSE acc

\* update that stores the values of a tensor that is not of strings before
\* it looks at the dtype
CategoricalUpdateStoresFirst(acc, new_values) ==
    IF new_values.dtype = "string"
    THEN [acc EXCEPT !.values = Unique(acc.values \o new_values.data)]
    ELSE [acc EXCEPT !.int_values = Unique(acc.int_values \o new_values.data)]

\* update(new_values): new_values is a tensor [dtype, data]; the accumulator
\* is left as it was when the dtype is unsupported
CategoricalUpdate(acc, new_values) ==
    IF new_values.dtype = "string"
    THEN [acc EXCEPT !.values = Unique(acc.values \o new_values.data)]
    ELSE IF new_values.dtype = "int32"
         THEN [acc EXCEPT !.int_values = Unique(acc.int_values \o new_values.data)]
         ELSE acc

\* get_unique_values(): a list of bytes
GetUniqueValues(acc) == Unique(acc.values \o [i \in 1..Len(acc.int_values) |-> AsString(acc.int_values[i])])

-----------------------------------------------------------------------------
(* TextAccumulator *)

\* the whitespace of the model: RE2's \s and the split's whitespace agree on it
IsSpace(c) == c \in {" ", "\t"}

\* tf.strings.regex_replace(t, r"\s+", " "): each run of whitespace becomes
\* one space
RECURSIVE RegexReplaceSpaces(_)
RegexReplaceSpaces(t) ==
    IF t = <<>> THEN <<>>
    ELSE IF IsSpace(Head(t))
         THEN IF Len(t) > 1 /\ IsSpace(t[2])
              THEN RegexReplaceSpaces(Tail(t))
              ELSE <<" ">> \o RegexReplaceSpaces(Tail(t))
         ELSE <<Head(t)>> \o RegexReplaceSpaces(Tail(t))

\* tf.strings.split(t) with the default separator: the tokens between runs
\* of whitespace, none of them empty (cur is the token being read)
RECURSIVE SplitFrom(_, _)
SplitFrom(cur, rest) ==
    IF rest = <<>> THEN (IF cur = <<>> THEN <<>> ELSE <<cur>>)
    ELSE IF IsSpace(Head(rest))
         THEN (IF cur = <<>> THEN <<>> ELSE <<cur>>) \o SplitFrom(<<>>, Tail(rest))
         ELSE SplitFrom(Append(cur, Head(rest)), Tail(rest))

StringsSplit(t) == SplitFrom(<<>>, t)

\* tf.strings.lower on one character (ASCII)
LowerChar(c) == IF c = "A" THEN "a" ELSE IF c = "B" THEN "b" ELSE c

\* tf.strings.lower
StringsLower(w) == [i \in 1..Len(w) |-> LowerChar(w[i])]

\* .flat_values of the ragged tensor of per-text token lists
RECURSIVE FlatValues(_)
FlatValues(rows) == IF rows = <<>> THEN <<>> ELSE Head(rows) \o FlatValues(Tail(rows))

\* __init__: an empty tensor of strings
TextInit == [words |-> <<>>]

\* whether update raises ValueError: the tensor is not of dtype string
TextRaises(new_texts) == new_texts.dtype # "string"

\* the words of one batch without the lowercasing
SplitWordsNoLower(data) ==
    FlatValues([i \in 1..Len(data) |-> StringsSplit(RegexReplaceSpaces(data[i]))])

\* the words of one batch of texts: collapse whitespace, split, lowercase
SplitWords(data) ==
    LET split_words == FlatValues([i \in 1..Len(data) |->
                                      StringsSplit(RegexReplaceSpaces(data[i]))])
    IN  [i \in 1..Len(split_words) |-> StringsLower(split_words[i])]

\* update that deduplicates the words of the new batch alone before
\* appending them
TextUpdateNoMerge(acc, new_texts) ==
    IF TextRaises(new_texts) THEN acc
    ELSE [acc EXCEPT !.words = acc.words \o Unique(SplitWords(new_texts.data))]

\* update(new_texts): new_texts is a tensor [dtype, data]
TextUpdate(acc, new_texts) ==
    IF TextRaises(new_texts) THEN acc
    ELSE [acc EXCEPT !.words = Unique(acc.words \o SplitWords(new_texts.data))]

\* get_unique_words(): a list of bytes
GetUniqueWords(acc) == acc.words

-----------------------------------------------------------------------------
(* Python values of a report: each value carries its Python type *)

PyBytes(s) == [t |-> "bytes", s |-> s]
PyStr(s) == [t |-> "str", s |-> s]
PyInt(i) == [t |-> "int", r |-> <<i, 1>>]
PyFloat(r) == [t |-> "float", r |-> r]
NpFloat32(r) == [t |-> "np.float32", r |-> r]
DType(name) == [t |-> "DType", name |-> name]

\* bytes.decode("utf-8")
Decode(b) == PyStr(b.s)

\* .numpy().tolist() of a tensor of strings: a list of bytes
ToBytesList(x) == [i \in 1..Len(x) |-> PyBytes(x[i])]

-----------------------------------------------------------------------------
(* DateAccumulator *)

\* the five child accumulators, in the order of the mean / variance dicts
Subfields == <<"year", "month_sin", "month_cos", "day_of_week_sin", "day_of_week_cos">>

\* sin(2*pi*m/12) and cos(2*pi*m/12) for m = 1..12, in hundredths
Sin12 == <<50, 87, 100, 87, 50, 0, -50, -87, -100, -87, -50, 0>>
Cos12 == <<87, 50, 0, -50, -87, -100, -87, -50, 0, 50, 87, 100>>

\* sin(2*pi*d/7) and cos(2*pi*d/7) for d = 0..6, in hundredths
Sin7 == <<0, 78, 97, 43, -43, -97, -78>>
Cos7 == <<100, 62, -22, -90, -90, -22, 62>>

\* the tensor fed to one child accumulator: dates[:, 0] for the year, the
\* cyclical encoding of dates[:, 1] and dates[:, 2] for the others
DateColumn(sub, dates) ==
    [i \in 1..Len(dates) |->
        IF sub = "year" THEN RInt(dates[i][1])
        ELSE IF sub = "month_sin" THEN Rat(Sin12[dates[i][2]], 100)
        ELSE IF sub = "month_cos" THEN Rat(Cos12[dates[i][2]], 100)
        ELSE IF sub = "day_of_week_sin" THEN Rat(Sin7[dates[i][3] + 1], 100)
        ELSE Rat(Cos7[dates[i][3] + 1], 100)]

\* __init__: five fresh WelfordAccumulators
DateInit == [sub \in {Subfields[i] : i \in 1..Len(Subfields)} |-> WelfordInit]

\* update that leaves out the last child, day_of_week_cos
DateUpdateSkipsLast(acc, dates) ==
    [sub \in DOMAIN acc |->
        IF sub = Subfields[Len(Subfields)] THEN acc[sub]
        ELSE WelfordUpdate(acc[sub], DateColumn(sub, dates))]

\* update(dates): dates is a tensor of rows <<year, month, day_of_week>>
DateUpdate(acc, dates) ==
    [sub \in DOMAIN acc |-> WelfordUpdate(acc[sub], DateColumn(sub, dates))]

\* property mean: a dict from subfield to the child's mean
DateMean(acc) == [sub \in DOMAIN acc |-> NpFloat32(acc[sub].mean)]

\* property variance: a dict from subfield to the child's variance
DateVariance(acc) == [sub \in DOMAIN acc |-> NpFloat32(WelfordVariance(acc[sub]))]

-----------------------------------------------------------------------------
(* DatasetStatistics._compute_final_statistics, one feature at a time *)

\* the numeric record of one feature
FinalNumeric(acc, dtype) ==
    [mean  |-> NpFloat32(acc.mean),
     count |-> NpFloat32(RInt(WelfordCount(acc))),
     var   |-> NpFloat32(WelfordVariance(acc)),
     dtype |-> DType(dtype)]

\* whether the categorical record raises ValueError: int(_byte) on bytes that
\* are no integer literal
FinalCategoricalRaises(acc, dtype) ==
    /\ dtype = "int32"
    /\ \E i \in 1..Len(GetUniqueValues(acc)) : ~IntParses(GetUniqueValues(acc)[i])

\* the integer vocabulary left in the order of first occurrence
UnsortedInts(l) == l

\* unique_values.sort() of the integer vocabulary
SortVocab(l) == SortInts(l)

\* the categorical record of one feature (when it does not raise)
FinalCategorical(acc, dtype) ==
    LET raw == ToBytesList(GetUniqueValues(acc))
        unique_values ==
            IF dtype = "int32"
            THEN LET ints == SortVocab([i \in 1..Len(raw) |-> ParseInt(raw[i].s)])
                 IN  [i \in 1..Len(ints) |-> PyInt(ints[i])]
            ELSE [i \in 1..Len(raw) |-> Decode(raw[i])]
    IN  [size  |-> PyInt(Len(unique_values)),
         vocab |-> unique_values,
         dtype |-> DType(dtype)]

\* the text record of one feature
FinalText(acc, dtype) ==
    LET unique_words == ToBytesList(GetUniqueWords(acc))
    IN  [size  |-> PyInt(Len(unique_words)),
         vocab |-> unique_words,
         dtype |-> DType(dtype)]

\* dict.get(key, default)
DictGet(d, key, default) == IF key \in DOMAIN d THEN d[key] ELSE default

\* d[key] = value
DictSet(d, key, value) == [k \in DOMAIN d \cup {key} |-> IF k = key THEN value ELSE d[k]]

\* the empty dict {}
EmptyDict == [k \in {} |-> 0]

\* one of the two loops over the subfields of a date feature: for each name
\* in names, rec[prefix + name] = data.get("feat_name", 0)
RECURSIVE DateLoop(_, _, _, _)
DateLoop(rec, names, prefix, data) ==
    IF names = <<>> THEN rec
    ELSE DateLoop(DictSet(rec, prefix \o Head(names), DictGet(data, "feat_name", PyInt(0))),
                  Tail(names), prefix, data)

\* the date record of one feature: the loop over the means, then the loop
\* over the variances, both writing the keys mean_<subfield>
FinalDate(acc) ==
    DateLoop(DateLoop(EmptyDict, Subfields, "mean_", DateMean(acc)),
             Subfields, "mean_", DateVariance(acc))

-----------------------------------------------------------------------------
(* DatasetStatistics: declarations, _process_batch, _compute_final_statistics *)

\* the declared features of each category, in declaration order
numeric_features == <<"num">>
categorical_features == <<"cat">>
text_features == <<"txt">>
date_features == <<"dt">>

\* features_specs[feature].dtype
features_specs == [num |-> "float32", cat |-> "int32", txt |-> "string"]

\* the order in which _process_batch visits the declared features
DeclaredOrder == numeric_features \o categorical_features \o text_features \o date_features

\* the set of elements of a list
Elems(s) == {s[i] : i \in 1..Len(s)}

\* __init__: one fresh accumulator per declared feature
EngineInit ==
    [numeric_stats     |-> [f \in Elems(numeric_features) |-> WelfordInit],
     categorical_stats |-> [f \in Elems(categorical_features) |-> CategoricalInit],
     text_stats        |-> [f \in Elems(text_features) |-> TextInit],
     date_stats        |-> [f \in Elems(date_features) |-> DateInit]]

\* the exception raised on feature's turn in _process_batch: KeyError from
\* batch[feature] when the column is absent, ValueError from update
UpdateRaises(feature, batch) ==
    IF feature \notin DOMAIN batch THEN "KeyError"
    ELSE IF feature \in Elems(categorical_features) /\ CategoricalRaises(batch[feature])
         THEN "ValueError"
    ELSE IF feature \in Elems(text_features) /\ TextRaises(batch[feature])
         THEN "ValueError"
    ELSE "none"

\* position in DeclaredOrder of the first feature whose turn raises, 0 if none
FailIndex(batch) ==
    IF \E i \in 1..Len(DeclaredOrder) : UpdateRaises(DeclaredOrder[i], batch) # "none"
    THEN CHOOSE i \in 1..Len(DeclaredOrder) :
            /\ UpdateRaises(DeclaredOrder[i], batch) # "none"
            /\ \A j \in 1..(i - 1) : UpdateRaises(DeclaredOrder[j], batch) = "none"
    ELSE 0

\* whether _process_batch gets to update feature's accumulator
Reached(feature, batch) ==
    \/ FailIndex(batch) = 0
    \/ \E i \in 1..(FailIndex(batch) - 1) : DeclaredOrder[i] = feature

\* the exception _process_batch propagates, "none" if it returns
ProcessBatchRaised(batch) ==
    IF FailIndex(batch) = 0 THEN "none"
    ELSE UpdateRaises(DeclaredOrder[FailIndex(batch)], batch)

\* _process_batch(batch) on the accumulators st; batch maps column names to
\* tensors; the accumulators visited before an exception keep their update
ProcessBatch(st, batch) ==
    [numeric_stats |->
        [f \in DOMAIN st.numeric_stats |->
            IF Reached(f, batch)
            THEN WelfordUpdate(st.numeric_stats[f], CastFloat(batch[f].data))
            ELSE st.numeric_stats[f]],
     categorical_stats |->
        [f \in DOMAIN st.categorical_stats |->
            IF Reached(f, batch)
            THEN CategoricalUpdate(st.categorical_stats[f], batch[f])
            ELSE st.categorical_stats[f]],
     text_stats |->
        [f \in DOMAIN st.text_stats |->
            IF Reached(f, batch)
            THEN TextUpdate(st.text_stats[f], batch[f])
            ELSE st.text_stats[f]],
     date_stats |->
        [f \in DOMAIN st.date_stats |->
            IF Reached(f, batch)
            THEN DateUpdate(st.date_stats[f], batch[f].data)
            ELSE st.date_stats[f]]]

\* one iteration of the loops of _process_batch in which the numeric
\* accumulators and the year accumulators of the date features are one shared
\* accumulator: an update of either is an update of both
UpdateFeatureSharedWelford(st, feature, batch) ==
    IF feature \in Elems(numeric_features) \cup Elems(date_features)
    THEN [st EXCEPT
            !.numeric_stats =
                [f \in DOMAIN @ |-> WelfordUpdate(@[f], CastFloat(batch[feature].data))],
            !.date_stats =
                [f \in DOMAIN @ |->
                    IF f = feature THEN DateUpdate(@[f], batch[feature].data)
                    ELSE [@[f] EXCEPT !.year =
                             WelfordUpdate(@, CastFloat(batch[feature].data))]]]
    ELSE IF feature \in Elems(categorical_features)
    THEN [st EXCEPT !.categorical_stats[feature] = CategoricalUpdate(@, batch[feature])]
    ELSE [st EXCEPT !.text_stats[feature] = TextUpdate(@, batch[feature])]

\* one iteration of the loops of _process_batch:
\* self.<category>_stats[feature].update(batch[feature])
UpdateFeature(st, feature, batch) ==
    IF feature \in Elems(numeric_features)
    THEN [st EXCEPT !.numeric_stats[feature] =
                        WelfordUpdate(@, CastFloat(batch[feature].data))]
    ELSE IF feature \in Elems(categorical_features)
    THEN [st EXCEPT !.categorical_stats[feature] = CategoricalUpdate(@, batch[feature])]
    ELSE IF feature \in Elems(text_features)
    THEN [st EXCEPT !.text_stats[feature] = TextUpdate(@, batch[feature])]
    ELSE [st EXCEPT !.date_stats[feature] = DateUpdate(@, batch[feature].data)]

\* whether _compute_final_statistics raises (ValueError from int(_byte))
ComputeFinalRaises(st) ==
    \E f \in DOMAIN st.categorical_stats :
        FinalCategoricalRaises(st.categorical_stats[f], features_specs[f])

\* _compute_final_statistics(): the report
ComputeFinalStatistics(st) ==
    [numeric_stats |->
        [f \in DOMAIN st.numeric_stats |-> FinalNumeric(st.numeric_stats[f], features_specs[f])],
     categorical_stats |->
        [f \in DOMAIN st.categorical_stats |->
            FinalCategorical(st.categorical_stats[f], features_specs[f])],
     text_stats |->
        [f \in DOMAIN st.text_stats |-> FinalText(st.text_stats[f], features_specs[f])],
     date_stats |->
        [f \in DOMAIN st.date_stats |-> FinalDate(st.date_stats[f])]]

\* a loop that swallows the exception of _process_batch and goes on
AfterBatchSwallow(exception) == "pass"

\* calculate_dataset_statistics: an exception of _process_batch leaves the
\* loop and the method; otherwise the loop goes on
AfterBatch(exception) == IF exception # "none" THEN "failed" ELSE "pass"

-----------------------------------------------------------------------------
(* DatasetStatistics: _custom_serializer, _save_stats, _load_stats *)

\* the characters of obj.name for the dtypes of the model
DTypeNames ==
    [float32 |-> <<"f", "l", "o", "a", "t", "3", "2">>,
     int32   |-> <<"i", "n", "t", "3", "2">>,
     string  |-> <<"s", "t", "r", "i", "n", "g">>]

\* _custom_serializer(obj), for the types it handles that a report holds
CustomSerializer(obj) ==
    IF obj.t = "DType" THEN PyStr(DTypeNames[obj.name])
    ELSE IF obj.t = "np.float32" THEN PyFloat(obj.r)
    ELSE PyStr(<<"b", "'">> \o obj.s \o <<"'">>)

\* whether json encodes the value without calling default
JsonNative(v) == v.t \in {"int", "float", "str"}

\* json's encoding of one scalar: a JSON integer, JSON real or JSON string
JsonEncode(v) ==
    LET o == IF JsonNative(v) THEN v ELSE CustomSerializer(v)
    IN  IF o.t = "int" THEN [j |-> "integer", r |-> o.r]
        ELSE IF o.t = "float" THEN [j |-> "real", r |-> o.r]
        ELSE [j |-> "string", s |-> o.s]

\* json's decoding of one scalar
JsonDecode(jv) ==
    IF jv.j = "integer" THEN PyInt(jv.r[1])
    ELSE IF jv.j = "real" THEN PyFloat(jv.r)
    ELSE PyStr(jv.s)

\* json.dump of a report: dicts become objects, the vocab list an array
JsonDump(stats) ==
    [c \in DOMAIN stats |->
        [f \in DOMAIN stats[c] |->
            [k \in DOMAIN stats[c][f] |->
                IF k = "vocab"
                THEN [i \in 1..Len(stats[c][f][k]) |-> JsonEncode(stats[c][f][k][i])]
                ELSE JsonEncode(stats[c][f][k])]]]

\* json.load of a document
JsonLoad(doc) ==
    [c \in DOMAIN doc |->
        [f \in DOMAIN doc[c] |->
            [k \in DOMAIN doc[c][f] |->
                IF k = "vocab"
                THEN [i \in 1..Len(doc[c][f][k]) |-> JsonDecode(doc[c][f][k][i])]
                ELSE JsonDecode(doc[c][f][k])]]]

\* tf.dtypes.as_dtype of a str naming a dtype
AsDType(v) == DType(CHOOSE name \in DOMAIN DTypeNames : DTypeNames[name] = v.s)

\* the loop that converts every "dtype" entry back to a dtype
ConvertDtypes(stats) ==
    [c \in DOMAIN stats |->
        [f \in DOMAIN stats[c] |->
            [k \in DOMAIN stats[c][f] |->
                IF k = "dtype" THEN AsDType(stats[c][f][k]) ELSE stats[c][f][k]]]]

\* the file at features_stats_path
AbsentFile == [state |-> "absent", content |-> EmptyDict]
TruncatedFile == [state |-> "truncated", content |-> EmptyDict]
CompleteFile(stats) == [state |-> "complete", content |-> JsonDump(stats)]

\* whether _load_stats raises (json.JSONDecodeError on a file that holds no
\* complete document)
LoadStatsRaises(overwrite, f) == ~overwrite /\ f.state = "truncated"

\* _load_stats that does not look at overwrite_stats
LoadStatsIgnoreOverwrite(overwrite, f) ==
    IF f.state # "absent" THEN ConvertDtypes(JsonLoad(f.content)) ELSE EmptyDict

\* _load_stats(): the report it returns (when it does not raise)
LoadStats(overwrite, f) ==
    IF overwrite THEN EmptyDict
    ELSE IF f.state # "absent" THEN ConvertDtypes(JsonLoad(f.content))
    ELSE EmptyDict

-----------------------------------------------------------------------------
(* The stand-alone accumulators driven by arbitrary batches *)

\* the sequences of at most k elements of S
RECURSIVE SeqsUpTo(_, _)
SeqsUpTo(S, k) ==
    IF k = 0 THEN {<<>>}
    ELSE LET shorter == SeqsUpTo(S, k - 1)
         IN  shorter \cup {Append(s, x) : s \in {t \in shorter : Len(t) = k - 1}, x \in S}

\* the numbers a numeric column may hold
NumVals == {1, 2, 3, 4, 5}

\* the integers a categorical int32 column may hold
IntVals == {-1, 1, 2, 3, 5, 10}

\* the strings a categorical string column may hold: words, and two decimal
\* literals of the same integer
StrVals == {<<"a">>, <<"B">>, <<"a", "b">>, <<"1", "0">>, <<"0", "1", "0">>}

\* the characters of a text
Alphabet == {"a", "B", " ", "\t"}

\* the texts a text column may hold: every string of at most 2 characters,
\* and some longer ones with several tokens and runs of whitespace
TextVals ==
    SeqsUpTo(Alphabet, 2)
    \cup {<<"a", " ", "B">>, <<"B", "\t", " ", "a">>, <<" ", "a", "B", " ">>}

\* the batches of each length bound, computed once
NumBatches == [k \in 0..MaxBatchLen |-> SeqsUpTo(NumVals, k)]
IntBatches == [k \in 0..MaxCatBatch |-> SeqsUpTo(IntVals, k)]
StrBatches == [k \in 0..MaxCatBatch |-> SeqsUpTo(StrVals, k)]
TextBatches == [k \in 0..MaxTextBatch |-> SeqsUpTo(TextVals, k)]

\* a tensor of the column's dtype
Tensor(dtype, data) == [dtype |-> dtype, data |-> data]

InitWVars ==
    /\ welford = WelfordInit
    /\ fedW = <<>>
    /\ lastW = <<>>

InitVVars ==
    /\ kind \in {"categorical", "text"}
    /\ catDtype \in (IF kind = "categorical" THEN {"int32", "string"} ELSE {"string"})
    /\ colDtype \in (IF kind = "categorical" THEN {"int32", "string", "float32"}
                                             ELSE {"string", "int32"})
    /\ cat = CategoricalInit
    /\ text = TextInit
    /\ fedV = <<>>
    /\ raisedV = "none"
    /\ lastV = "none"

\* welford.update(batch)
WUpdate(batch) ==
    /\ welford' = WelfordUpdate(welford, CastFloat(batch))
    /\ fedW' = fedW \o batch
    /\ lastW' = batch
    /\ UNCHANGED <<varsV, varsE>>

\* cat.update(batch)
CatUpdate(batch) ==
    /\ cat' = CategoricalUpdate(cat, Tensor(colDtype, batch))
    /\ raisedV' = IF CategoricalRaises(Tensor(colDtype, batch)) THEN "ValueError" ELSE "none"
    /\ fedV' = fedV \o batch
    /\ lastV' = colDtype
    /\ UNCHANGED <<kind, catDtype, colDtype, text>>
    /\ UNCHANGED <<varsW, varsE>>

\* cat.update(batch) with a float32 tensor, on an accumulator in any state
CatUpdateFloat(batch) ==
    /\ cat' = CategoricalUpdate(cat, Tensor("float32", batch))
    /\ raisedV' = IF CategoricalRaises(Tensor("float32", batch)) THEN "ValueError" ELSE "none"
    /\ lastV' = "float32"
    /\ UNCHANGED <<kind, catDtype, colDtype, text, fedV>>
    /\ UNCHANGED <<varsW, varsE>>

\* text.update(batch)
TxtUpdate(batch) ==
    /\ text' = TextUpdate(text, Tensor(colDtype, batch))
    /\ raisedV' = IF TextRaises(Tensor(colDtype, batch)) THEN "ValueError" ELSE "none"
    /\ fedV' = fedV \o batch
    /\ lastV' = colDtype
    /\ UNCHANGED <<kind, catDtype, colDtype, cat>>
    /\ UNCHANGED <<varsW, varsE>>

\* text.update(batch) with an int32 tensor, on an accumulator in any state
TxtUpdateInt(batch) ==
    /\ text' = TextUpdate(text, Tensor("int32", batch))
    /\ raisedV' = IF TextRaises(Tensor("int32", batch)) THEN "ValueError" ELSE "none"
    /\ lastV' = "int32"
    /\ UNCHANGED <<kind, catDtype, colDtype, cat, fedV>>
    /\ UNCHANGED <<varsW, varsE>>

NextW ==
    \E batch \in NumBatches[Min(MaxBatchLen, MaxFed - Len(fedW))] : WUpdate(batch)

NextV ==
    \/ /\ kind = "categorical"
       /\ colDtype = "string"
       /\ \E batch \in StrBatches[Min(MaxCatBatch, MaxFedCat - Len(fedV))] : CatUpdate(batch)
    \/ /\ kind = "categorical"
       /\ colDtype # "string"
       /\ \E batch \in IntBatches[Min(MaxCatBatch, MaxFedCat - Len(fedV))] : CatUpdate(batch)
    \/ /\ kind = "text"
       /\ colDtype = "string"
       /\ \E batch \in TextBatches[Min(MaxTextBatch, MaxFedTexts - Len(fedV))] : TxtUpdate(batch)
    \/ /\ kind = "text"
       /\ colDtype # "string"
       /\ \E batch \in IntBatches[Min(MaxCatBatch, MaxFedCat - Len(fedV))] : TxtUpdate(batch)
    \/ /\ kind = "categorical"
       /\ colDtype \in {"int32", "string"}
       /\ Len(fedV) <= MaxFedReject
       /\ \E batch \in IntBatches[1] : CatUpdateFloat(batch)
    \/ /\ kind = "text"
       /\ colDtype = "string"
       /\ Len(fedV) <= MaxFedReject
       /\ \E batch \in IntBatches[1] : TxtUpdateInt(batch)

-----------------------------------------------------------------------------
(* The DatasetStatistics engine: load-or-compute, one pass, persist *)

\* the batches a dataset may deliver: rows of every column, declared or not
BatchA ==
    [num   |-> Tensor("int32", <<1, 2, 3>>),
     cat   |-> Tensor("int32", <<3, 1, 2>>),
     txt   |-> Tensor("string", << <<"B", "\t", " ", "a">>, <<" ">>, <<"a", "B">> >>),
     dt    |-> Tensor("int32", << <<2020, 12, 6>>, <<2021, 1, 0>>, <<2020, 6, 3>> >>),
     extra |-> Tensor("int32", <<7, 7, 7>>)]

BatchB ==
    [num   |-> Tensor("int32", <<4, 5>>),
     cat   |-> Tensor("int32", <<2, 5>>),
     txt   |-> Tensor("string", << <<"a">>, <<"a", " ", "B">> >>),
     dt    |-> Tensor("int32", << <<2021, 3, 1>>, <<2022, 7, 2>> >>),
     extra |-> Tensor("int32", <<8, 8>>)]

BatchEmpty ==
    [num   |-> Tensor("int32", <<>>),
     cat   |-> Tensor("int32", <<>>),
     txt   |-> Tensor("string", <<>>),
     dt    |-> Tensor("int32", <<>>),
     extra |-> Tensor("int32", <<>>)]

BatchOne ==
    [num   |-> Tensor("int32", <<4>>),
     cat   |-> Tensor("int32", <<10>>),
     txt   |-> Tensor("string", << <<"B">> >>),
     dt    |-> Tensor("int32", << <<2024, 2, 4>> >>),
     extra |-> Tensor("int32", <<9>>)]

EngineBatches == {BatchA, BatchB, BatchOne, BatchEmpty}

\* the columns a dataset may have: exactly the declared features, one more
\* column, or a declared feature missing
ColumnSets ==
    {Elems(DeclaredOrder),
     Elems(DeclaredOrder) \cup {"extra"},
     Elems(DeclaredOrder) \ {"num"},
     Elems(DeclaredOrder) \ {"txt"}}

\* a batch as the dataset delivers it: only the dataset's columns
Project(batch, cols) == [c \in cols |-> batch[c]]

\* features_stats before any assignment to it
Unset == [unset |-> TRUE]

\* the accumulators of the engine
EngineStats ==
    [numeric_stats     |-> numeric_stats,
     categorical_stats |-> categorical_stats,
     text_stats        |-> text_stats,
     date_stats        |-> date_stats]

\* a new DatasetStatistics object on the report file f
NewInstance(f) ==
    /\ numeric_stats = EngineInit.numeric_stats
    /\ categorical_stats = EngineInit.categorical_stats
    /\ text_stats = EngineInit.text_stats
    /\ date_stats = EngineInit.date_stats
    /\ features_stats = Unset
    /\ overwrite_stats \in BOOLEAN
    /\ columns \in ColumnSets
    /\ pc = "start"
    /\ raised = "none"
    /\ processed = <<>>
    /\ startFile = f
    /\ returned = Unset
    /\ passRan = FALSE

\* a report file left at the path by an earlier writer, holding only the
\* sections numeric_stats and categorical_stats
OlderReportFile ==
    LET full == ComputeFinalStatistics(
                    ProcessBatch(EngineInit, Project(BatchA, Elems(DeclaredOrder))))
    IN  CompleteFile([c \in {"numeric_stats", "categorical_stats"} |-> full[c]])

\* what the first run may find at features_stats_path
StartFiles == {AbsentFile, OlderReportFile}

InitEVars ==
    /\ file \in StartFiles
    /\ runs = 1
    /\ NewInstance(file)

\* the caller's load-or-compute: _load_stats(), and main() when it returned
\* no report
LoadOrCompute ==
    /\ pc = "start"
    /\ IF LoadStatsRaises(overwrite_stats, file)
       THEN /\ pc' = "failed"
            /\ raised' = "JSONDecodeError"
            /\ UNCHANGED <<features_stats, returned, passRan>>
       ELSE LET stats == LoadStats(overwrite_stats, file)
            IN  /\ features_stats' = IF overwrite_stats THEN features_stats ELSE stats
                /\ raised' = "none"
                /\ IF stats # EmptyDict
                   THEN pc' = "done" /\ returned' = stats /\ passRan' = FALSE
                   ELSE pc' = "pass" /\ returned' = returned /\ passRan' = TRUE
    /\ UNCHANGED <<numeric_stats, categorical_stats, text_stats, date_stats, file,
                   overwrite_stats, columns, processed, startFile, runs>>
    /\ UNCHANGED <<varsW, varsV>>

\* calculate_dataset_statistics, one iteration of the loop: _process_batch
ProcessBatchStep(b) ==
    /\ pc = "pass"
    /\ Len(processed) < MaxBatches
    /\ LET batch == Project(b, columns)
           st    == ProcessBatch(EngineStats, batch)
       IN  /\ numeric_stats' = st.numeric_stats
           /\ categorical_stats' = st.categorical_stats
           /\ text_stats' = st.text_stats
           /\ date_stats' = st.date_stats
           /\ raised' = ProcessBatchRaised(batch)
           /\ pc' = AfterBatch(ProcessBatchRaised(batch))
           /\ processed' = IF ProcessBatchRaised(batch) = "none"
                           THEN Append(processed, b) ELSE processed
    /\ UNCHANGED <<features_stats, file, overwrite_stats, columns, startFile,
                   returned, runs, passRan>>
    /\ UNCHANGED <<varsW, varsV>>

\* a finalization that empties the word accumulators as it reports them
ComputeFinalConsuming ==
    /\ pc = "pass"
    /\ ~ComputeFinalRaises(EngineStats)
    /\ pc' = "save"
    /\ raised' = "none"
    /\ features_stats' = ComputeFinalStatistics(EngineStats)
    /\ text_stats' = EngineInit.text_stats
    /\ UNCHANGED <<numeric_stats, categorical_stats, date_stats, file,
                   overwrite_stats, columns, processed, startFile, returned, runs,
                   passRan>>
    /\ UNCHANGED <<varsW, varsV>>

\* calculate_dataset_statistics, after the loop: _compute_final_statistics
ComputeFinal ==
    /\ pc = "pass"
    /\ IF ComputeFinalRaises(EngineStats)
       THEN pc' = "failed" /\ raised' = "ValueError" /\ UNCHANGED features_stats
       ELSE /\ pc' = "save"
            /\ raised' = "none"
            /\ features_stats' = ComputeFinalStatistics(EngineStats)
    /\ UNCHANGED <<numeric_stats, categorical_stats, text_stats, date_stats, file,
                   overwrite_stats, columns, processed, startFile, returned, runs,
                   passRan>>
    /\ UNCHANGED <<varsW, varsV>>

\* _save_stats, path_obj.open("w"): the file is created or truncated
SaveOpen ==
    /\ pc = "save"
    /\ file' = TruncatedFile
    /\ pc' = "write"
    /\ UNCHANGED <<numeric_stats, categorical_stats, text_stats, date_stats,
                   features_stats, overwrite_stats, columns, raised, processed,
                   startFile, returned, runs, passRan>>
    /\ UNCHANGED <<varsW, varsV>>

\* _save_stats, json.dump and the close of the file; main returns the report
SaveDump ==
    /\ pc = "write"
    /\ file' = CompleteFile(features_stats)
    /\ pc' = "done"
    /\ returned' = features_stats
    /\ UNCHANGED <<numeric_stats, categorical_stats, text_stats, date_stats,
                   features_stats, overwrite_stats, columns, raised, processed,
                   startFile, runs, passRan>>
    /\ UNCHANGED <<varsW, varsV>>

\* _save_stats, the write fails (OSError) before any of the document is
\* on disk
SaveFail ==
    /\ pc = "write"
    /\ pc' = "failed"
    /\ raised' = "OSError"
    /\ UNCHANGED <<numeric_stats, categorical_stats, text_stats, date_stats,
                   features_stats, file, overwrite_stats, columns, processed,
                   startFile, returned, runs, passRan>>
    /\ UNCHANGED <<varsW, varsV>>

\* a later run: a new DatasetStatistics object on the same path
Restart ==
    /\ pc \in {"done", "failed"}
    /\ runs < MaxRuns
    /\ runs' = runs + 1
    /\ file' = file
    /\ numeric_stats' = EngineInit.numeric_stats
    /\ categorical_stats' = EngineInit.categorical_stats
    /\ text_stats' = EngineInit.text_stats
    /\ date_stats' = EngineInit.date_stats
    /\ features_stats' = Unset
    /\ overwrite_stats' \in BOOLEAN
    /\ columns' \in ColumnSets
    /\ pc' = "start"
    /\ raised' = "none"
    /\ processed' = <<>>
    /\ startFile' = file
    /\ returned' = Unset
    /\ passRan' = FALSE
    /\ UNCHANGED <<varsW, varsV>>

NextE ==
    \/ LoadOrCompute
    \/ \E b \in EngineBatches : ProcessBatchStep(b)
    \/ ComputeFinal
    \/ SaveOpen
    \/ SaveDump
    \/ SaveFail
    \/ Restart

\* the stand-alone accumulators, and the engine, at rest
IdleW == InitWVars

IdleV == InitVVars /\ kind = "text" /\ catDtype = "string" /\ colDtype = "string"

IdleE == InitEVars /\ file = AbsentFile /\ ~overwrite_stats /\ columns = Elems(DeclaredOrder)

InitW == InitWVars /\ IdleV /\ IdleE

InitV == IdleW /\ InitVVars /\ IdleE

Init == IdleW /\ IdleV /\ InitEVars

SpecWelford == InitW /\ [][NextW]_vars

SpecVocab == InitV /\ [][NextV]_vars

\* the engine on a path without a report: one load-or-compute, one pass
InitPass == Init /\ file = AbsentFile

NextPass ==
    \/ LoadOrCompute
    \/ \E b \in EngineBatches : ProcessBatchStep(b)
    \/ ComputeFinal
    \/ SaveOpen
    \/ SaveDump
    \/ SaveFail

SpecPass == InitPass /\ [][NextPass]_vars

Spec == Init /\ [][NextE]_vars

-----------------------------------------------------------------------------
(* Reference definitions over the history of values fed *)

\* sum of a sequence of integers
RECURSIVE ISum(_)
ISum(s) == IF s = <<>> THEN 0 ELSE Head(s) + ISum(Tail(s))

\* arithmetic mean of a non-empty sequence of integers
ArithMean(s) == Rat(ISum(s), Len(s))

\* sample variance (n-1 denominator) of a sequence of at least two integers,
\* by the two-pass textbook definition
SampleVariance(s) ==
    LET m == ArithMean(s)
    IN  RDiv(RSum([i \in 1..Len(s) |->
                      RMul(RSub(RInt(s[i]), m), RSub(RInt(s[i]), m))]),
             RInt(Len(s) - 1))

\* C1: feeding the batches one by one gives the same count, mean and
\* variance as feeding the whole sequence of values as one single batch.
C1_BatchPartitionInvariant ==
    LET one == WelfordUpdate(WelfordInit, CastFloat(fedW))
    IN  /\ WelfordCount(welford) = WelfordCount(one)
        /\ welford.mean = one.mean
        /\ WelfordVariance(welford) = WelfordVariance(one)

\* C1 witness: five values were fed in three non-empty batches.
C1_Witness ==
    /\ Len(fedW) = 5
    /\ Len(lastW) = 2
    /\ WelfordVariance(welford) # <<0, 1>>

\* C2: count is the number of values fed, mean their arithmetic mean and,
\* when count > 1, variance their sample variance with the n-1 denominator.
C2_CountMeanSampleVariance ==
    /\ WelfordCount(welford) = Len(fedW)
    /\ Len(fedW) > 0 => welford.mean = ArithMean(fedW)
    /\ Len(fedW) > 1 => WelfordVariance(welford) = SampleVariance(fedW)

\* C2 witness: batches [1,2,3] then [4,5] gave mean 3, count 5, variance 2.5.
C2_Witness ==
    /\ fedW = <<1, 2, 3, 4, 5>>
    /\ lastW = <<4, 5>>
    /\ WelfordCount(welford) = 5
    /\ welford.mean = <<3, 1>>
    /\ WelfordVariance(welford) = <<5, 2>>

-----------------------------------------------------------------------------
(* Reference definitions over the history of elements fed to cat / text *)

\* the elements of a finite set of integers, ascending
RECURSIVE AscendingInts(_)
AscendingInts(S) ==
    IF S = {} THEN <<>>
    ELSE LET m == CHOOSE x \in S : \A y \in S : x <= y
         IN  <<m>> \o AscendingInts(S \ {m})

\* lexicographic order of two strings, by character code
RECURSIVE StrLeq(_, _)
StrLeq(a, b) ==
    IF a = <<>> THEN TRUE
    ELSE IF b = <<>> THEN FALSE
    ELSE IF Ord(Head(a)) < Ord(Head(b)) THEN TRUE
    ELSE IF Ord(Head(a)) > Ord(Head(b)) THEN FALSE
    ELSE StrLeq(Tail(a), Tail(b))

\* the elements of a finite set of strings, in lexicographic order
RECURSIVE AscendingStrs(_)
AscendingStrs(S) ==
    IF S = {} THEN <<>>
    ELSE LET m == CHOOSE x \in S : \A y \in S : StrLeq(x, y)
         IN  <<m>> \o AscendingStrs(S \ {m})

\* sorted(l) of a list of strings: every element kept, duplicates included
RECURSIVE InsertStr(_, _)
InsertStr(x, sorted) ==
    IF sorted = <<>> THEN <<x>>
    ELSE IF StrLeq(x, Head(sorted)) THEN <<x>> \o sorted
         ELSE <<Head(sorted)>> \o InsertStr(x, Tail(sorted))

RECURSIVE SortStrs(_)
SortStrs(l) == IF l = <<>> THEN <<>> ELSE InsertStr(Head(l), SortStrs(Tail(l)))

\* sorted(vocab) of a finalized vocabulary: numerically for integers,
\* lexicographically for str and bytes
SortedVocab(vocab) ==
    IF vocab # <<>> /\ vocab[1].t = "int"
    THEN SortInts([i \in 1..Len(vocab) |-> vocab[i].r[1]])
    ELSE SortStrs([i \in 1..Len(vocab) |-> vocab[i].s])

\* the distinct elements fed so far, as one batch in a canonical order
CanonicalBatch ==
    IF kind = "categorical" /\ colDtype = "int32"
    THEN AscendingInts(Elems(fedV))
    ELSE AscendingStrs(Elems(fedV))

\* the tokens of a text: its maximal runs of non-whitespace characters
RefTokens(t) ==
    {SubSeq(t, i, j) : <<i, j>> \in
        {p \in (1..Len(t)) \X (1..Len(t)) :
            /\ p[1] <= p[2]
            /\ \A k \in p[1]..p[2] : ~IsSpace(t[k])
            /\ (p[1] = 1 \/ IsSpace(t[p[1] - 1]))
            /\ (p[2] = Len(t) \/ IsSpace(t[p[2] + 1]))}}

IsUpper(c) == c \in {"A", "B"}

\* the lowercase of a token
RefLower(w) ==
    [i \in 1..Len(w) |-> IF w[i] = "A" THEN "a" ELSE IF w[i] = "B" THEN "b" ELSE w[i]]

\* C3: for a categorical feature declared int32 and fed int32 batches, the
\* finalized vocab is the strictly ascending list of exactly the distinct
\* integers that occurred in any batch.
C3_IntVocabAscendingDistinct ==
    (kind = "categorical" /\ catDtype = "int32" /\ colDtype = "int32") =>
        /\ ~FinalCategoricalRaises(cat, catDtype)
        /\ LET vocab == FinalCategorical(cat, catDtype).vocab
           IN  /\ vocab = [i \in 1..Len(AscendingInts(Elems(fedV))) |->
                               PyInt(AscendingInts(Elems(fedV))[i])]
               /\ \A i \in 1..Len(vocab) : \A j \in 1..Len(vocab) :
                      i < j => vocab[i].r[1] < vocab[j].r[1]

\* C3 witness: batches [3,1,2] then [2,5] finalize to [1,2,3,5].
C3_Witness ==
    /\ kind = "categorical" /\ catDtype = "int32" /\ colDtype = "int32"
    /\ fedV = <<3, 1, 2, 2, 5>>
    /\ cat.int_values = <<3, 1, 2, 5>>
    /\ FinalCategorical(cat, catDtype).vocab = <<PyInt(1), PyInt(2), PyInt(3), PyInt(5)>>

\* C4: the finalized vocabulary, once sorted, depends only on which distinct
\* inputs were fed: it equals the sorted vocabulary of a fresh accumulator fed
\* the distinct inputs as one single batch in a canonical order, whatever the
\* partition into batches and the order of the elements were.
C4_SortedVocabOrderInvariant ==
    /\ (kind = "categorical" /\ colDtype \in {"int32", "string"}
            /\ ~FinalCategoricalRaises(cat, catDtype)) =>
        LET one == CategoricalUpdate(CategoricalInit, Tensor(colDtype, CanonicalBatch))
        IN  /\ ~FinalCategoricalRaises(one, catDtype)
            /\ SortedVocab(FinalCategorical(cat, catDtype).vocab)
                 = SortedVocab(FinalCategorical(one, catDtype).vocab)
    /\ (kind = "text" /\ colDtype = "string") =>
        LET one == TextUpdate(TextInit, Tensor(colDtype, CanonicalBatch))
        IN  SortedVocab(FinalText(text, "string").vocab)
              = SortedVocab(FinalText(one, "string").vocab)

\* C4 witness: a text vocabulary built from texts that repeat a word, left
\* by the code in first-occurrence order, which is not the sorted order.
C4_Witness ==
    /\ kind = "text" /\ colDtype = "string"
    /\ fedV = << <<"B", "\t", " ", "a">>, <<"a", " ", "B">>, <<"a", "B">> >>
    /\ text.words = << <<"b">>, <<"a">>, <<"a", "b">> >>
    /\ SortedVocab(FinalText(text, "string").vocab)
         = << <<"a">>, <<"a", "b">>, <<"b">> >>

\* C5: the word vocabulary is exactly the set of lowercased tokens of the
\* texts fed, split on runs of whitespace; every word is non-empty, lowercase
\* and free of whitespace; an empty or all-whitespace text adds no token.
C5_WordsAreLowercasedTokens ==
    (kind = "text" /\ colDtype = "string") =>
        LET vocab == FinalText(text, "string").vocab
        IN  /\ {vocab[i].s : i \in 1..Len(vocab)}
                 = {RefLower(w) : w \in UNION {RefTokens(fedV[i]) : i \in 1..Len(fedV)}}
            /\ Elems(text.words) = {vocab[i].s : i \in 1..Len(vocab)}
            /\ \A i \in 1..Len(vocab) :
                   /\ vocab[i].s # <<>>
                   /\ \A k \in 1..Len(vocab[i].s) :
                          ~IsSpace(vocab[i].s[k]) /\ ~IsUpper(vocab[i].s[k])

\* C5 witness: a text with an uppercase token and a run of whitespace, an
\* all-whitespace text and an empty text gave the words b and a.
C5_Witness ==
    /\ kind = "text" /\ colDtype = "string"
    /\ fedV = << <<"B", "\t", " ", "a">>, <<" ", "\t">>, <<>> >>
    /\ text.words = << <<"b">>, <<"a">> >>


-----------------------------------------------------------------------------
(* Reference definitions over reports *)

\* equality of two scalars of a report: numbers by value, a dtype by name,
\* str and bytes by their characters
SameValue(x, y) ==
    IF x.t \in {"int", "float", "np.float32"}
    THEN y.t \in {"int", "float", "np.float32"} /\ x.r = y.r
    ELSE IF x.t = "DType" THEN y.t = "DType" /\ x.name = y.name
    ELSE y.t \in {"str", "bytes"} /\ x.s = y.s

\* equality of two reports: the same keys at every level, equal values
SameReport(a, b) ==
    /\ DOMAIN a = DOMAIN b
    /\ \A c \in DOMAIN a :
        /\ DOMAIN a[c] = DOMAIN b[c]
        /\ \A f \in DOMAIN a[c] :
            /\ DOMAIN a[c][f] = DOMAIN b[c][f]
            /\ \A k \in DOMAIN a[c][f] :
                IF k = "vocab"
                THEN /\ Len(a[c][f][k]) = Len(b[c][f][k])
                     /\ \A i \in 1..Len(a[c][f][k]) :
                            SameValue(a[c][f][k][i], b[c][f][k][i])
                ELSE SameValue(a[c][f][k], b[c][f][k])

\* the accumulators after _process_batch on each of the batches in turn,
\* the batches holding the columns cols only
RECURSIVE Accumulate(_, _, _)
Accumulate(st, batches, cols) ==
    IF batches = <<>> THEN st
    ELSE Accumulate(ProcessBatch(st, Project(Head(batches), cols)), Tail(batches), cols)

\* C6: for every date feature, finalize produces the ten distinct keys
\* mean_<subfield> and var_<subfield>, and each holds the mean, respectively
\* the variance, of that subfield's own child accumulator.
C6_DateRecordPerSubfield ==
    pc = "save" =>
        \A f \in DOMAIN date_stats : \A i \in 1..Len(Subfields) :
            LET rec == features_stats.date_stats[f]
                sub == Subfields[i]
            IN  /\ ("mean_" \o sub) \in DOMAIN rec
                /\ ("var_" \o sub) \in DOMAIN rec
                /\ rec["mean_" \o sub].r = date_stats[f][sub].mean
                /\ rec["var_" \o sub].r = WelfordVariance(date_stats[f][sub])

\* C7: persisting a finalized report and loading it back gives a report
\* equal to the one persisted: the same keys, numbers equal as numbers,
\* dtypes rebuilt from their names, vocabulary entries the same strings.
C7_PersistLoadRoundTrip ==
    (pc = "done" /\ passRan) =>
        /\ ~LoadStatsRaises(FALSE, file)
        /\ SameReport(LoadStats(FALSE, file), features_stats)

\* C8: with overwrite the persisted report is ignored and the statistics are
\* recomputed and persisted; without overwrite and with a report file, the
\* file is deserialized and returned and no accumulator is updated; a pass
\* runs only with overwrite or when no file exists.
C8_LoadOrCompute ==
    /\ (pc = "done" /\ overwrite_stats) =>
           /\ passRan
           /\ returned = ComputeFinalStatistics(EngineStats)
           /\ file = CompleteFile(returned)
    /\ (pc = "done" /\ ~overwrite_stats /\ startFile.state = "complete") =>
           /\ ~passRan
           /\ returned = ConvertDtypes(JsonLoad(startFile.content))
           /\ EngineStats = EngineInit
           /\ processed = <<>>
           /\ file = startFile
    /\ (pc = "done" /\ ~overwrite_stats /\ startFile.state = "absent") =>
           /\ passRan
           /\ returned = ComputeFinalStatistics(EngineStats)
           /\ file = CompleteFile(returned)
    /\ passRan => (overwrite_stats \/ startFile.state = "absent")

\* C8 witness: a second run without overwrite found the report of five rows
\* that the first run persisted, and returned it without running a pass.
C8_Witness ==
    /\ runs = 2
    /\ pc = "done"
    /\ ~overwrite_stats
    /\ startFile.state = "complete"
    /\ ~passRan
    /\ returned.numeric_stats["num"].count.r = <<5, 1>>
    /\ numeric_stats["num"].n = 0

\* C9: in every state the report file is absent, or the previous complete
\* report, or a complete newly computed report; never a partly written one.
C9_PersistAtomic ==
    \/ file.state = "absent"
    \/ /\ file.state = "complete"
       /\ \/ file = startFile
          \/ file = CompleteFile(ComputeFinalStatistics(EngineStats))

\* C10: a batch that lacks the column of a declared feature fails with an
\* error that aborts the pass: no batch of such a dataset is processed, no
\* report is finalized, returned or persisted from it; a column of an
\* undeclared feature changes no accumulator.
C10_MissingColumnAborts ==
    /\ raised = "KeyError" =>
           /\ pc = "failed"
           /\ features_stats \in {Unset, EmptyDict}
           /\ returned = Unset
           /\ file = startFile
    /\ (Elems(DeclaredOrder) \ columns # {}) => processed = <<>>
    /\ (pc = "pass" /\ "extra" \in columns) =>
           EngineStats = Accumulate(EngineInit, processed, Elems(DeclaredOrder))

\* C10 witness: the text column is missing; the first batch updated the
\* numeric accumulator, then failed, and the pass was aborted.
C10_Witness ==
    /\ "txt" \notin columns
    /\ pc = "failed"
    /\ raised = "KeyError"
    /\ numeric_stats["num"].n = 3
    /\ text_stats["txt"].words = <<>>
    /\ features_stats = EmptyDict
    /\ file = AbsentFile

-----------------------------------------------------------------------------
(* Errors of update and the frame of the failed call *)

\* whether the accumulator under exercise has no branch for tensors of dtype
Unsupported(dtype) ==
    IF kind = "categorical" THEN dtype \notin {"int32", "string"} ELSE dtype # "string"

\* C11: an update of the categorical accumulator with a tensor that is neither
\* int32 nor string, and an update of the text accumulator with a tensor that
\* is not of strings, raises to the caller, and the accumulator's stored
\* vocabulary is what it was before the call; a supported tensor raises nothing.
C11_UnsupportedDtypeRejected ==
    [][/\ raisedV' = (IF Unsupported(lastV') THEN "ValueError" ELSE "none")
       /\ (raisedV' = "ValueError" => (cat' = cat /\ text' = text))]_vars

\* C11 witness: the accumulator holds 3, 1 from an int32 batch, and the
\* float32 tensor of the latest call was rejected.
C11_Witness ==
    /\ kind = "categorical" /\ colDtype = "int32"
    /\ fedV = <<3, 1>>
    /\ lastV = "float32"
    /\ raisedV = "ValueError"
    /\ cat.int_values = <<3, 1>>

-----------------------------------------------------------------------------
(* Finalization: repeated, and after few or no rows *)

\* C12: finalization changes no accumulator: in every state after the pass
\* was finalized and before any further update, finalizing again succeeds and
\* returns a report identical to the one the first finalization returned.
C12_FinalizeIdempotent ==
    (pc \in {"save", "write"} \/ (pc = "done" /\ passRan)) =>
        /\ ~ComputeFinalRaises(EngineStats)
        /\ ComputeFinalStatistics(EngineStats) = features_stats

\* C12 witness: two batches were processed and finalized; the report holds
\* the vocabulary 1, 2, 3, 5 and the accumulators still hold what they held.
C12_Witness ==
    /\ pc = "save"
    /\ processed = <<BatchA, BatchB>>
    /\ features_stats.categorical_stats["cat"].vocab = <<PyInt(1), PyInt(2), PyInt(3), PyInt(5)>>
    /\ features_stats.text_stats["txt"].size = PyInt(3)
    /\ categorical_stats["cat"].int_values = <<3, 1, 2, 5>>
    /\ Len(text_stats["txt"].words) = 3

\* the number of rows of a sequence of batches
RECURSIVE Rows(_)
Rows(batches) ==
    IF batches = <<>> THEN 0
    ELSE Len(Head(batches)[numeric_features[1]].data) + Rows(Tail(batches))

\* C13: finalization succeeds after any number of batches, zero included;
\* the numeric record's count is the number of rows processed, and whenever
\* that count is at most 1 (no batch, empty batches, a single row) the
\* variance is the default 0.
C13_FinalizeAfterFewRows ==
    /\ pc = "pass" => ~ComputeFinalRaises(EngineStats)
    /\ pc = "save" =>
           \A f \in DOMAIN features_stats.numeric_stats :
               LET rec == features_stats.numeric_stats[f]
               IN  /\ rec.count.r = <<Rows(processed), 1>>
                   /\ Rows(processed) <= 1 => rec.var.r = <<0, 1>>
                   /\ processed = <<>> => rec.mean.r = <<0, 1>>

\* C13 witness: the pass was finalized without any batch: count 0, variance 0.
C13_Witness ==
    /\ pc = "save"
    /\ processed = <<>>
    /\ features_stats.numeric_stats["num"].count = NpFloat32(<<0, 1>>)
    /\ features_stats.numeric_stats["num"].var = NpFloat32(<<0, 1>>)
    /\ features_stats.categorical_stats["cat"].vocab = <<>>

-----------------------------------------------------------------------------
(* The Welford accumulator: empty batches, signs *)

\* C14: an update with an empty batch changes nothing: in every reachable
\* state, the initial one with count 0 included, the update with the empty
\* tensor returns the accumulator with the same n, mean, M2 and var, and
\* every step that fed an empty batch left the accumulator as it was.
C14_EmptyBatchNoOp ==
    [][/\ WelfordUpdate(welford, CastFloat(<<>>)) = welford
       /\ WelfordUpdate(welford', CastFloat(<<>>)) = welford'
       /\ (lastW' = <<>> => welford' = welford)]_vars

\* C14 witness: 1, 2, 3 were fed and then an empty batch: count 3, mean 2
\* and M2 2 are still there.
C14_Witness ==
    /\ fedW = <<1, 2, 3>>
    /\ lastW = <<>>
    /\ welford.n = 3
    /\ welford.mean = <<2, 1>>
    /\ welford.M2 = <<2, 1>>

-----------------------------------------------------------------------------
(* Growth, duplicates and ownership of the accumulated state *)

\* C17: across every step on the same accumulators, no count decreases and
\* every value or word accumulated before the step is accumulated after it;
\* this holds of the stand-alone accumulators and, within one run, of the
\* accumulators of every feature of the engine.
C17_AccumulatedStateOnlyGrows ==
    [][/\ welford'.n >= welford.n
       /\ Elems(cat.values) \subseteq Elems(cat'.values)
       /\ Elems(cat.int_values) \subseteq Elems(cat'.int_values)
       /\ Elems(text.words) \subseteq Elems(text'.words)
       /\ runs' = runs =>
              /\ \A f \in DOMAIN numeric_stats : numeric_stats'[f].n >= numeric_stats[f].n
              /\ \A f \in DOMAIN categorical_stats :
                     /\ Elems(categorical_stats[f].values)
                            \subseteq Elems(categorical_stats'[f].values)
                     /\ Elems(categorical_stats[f].int_values)
                            \subseteq Elems(categorical_stats'[f].int_values)
              /\ \A f \in DOMAIN text_stats :
                     Elems(text_stats[f].words) \subseteq Elems(text_stats'[f].words)
              /\ \A f \in DOMAIN date_stats : \A sub \in DOMAIN date_stats[f] :
                     date_stats'[f][sub].n >= date_stats[f][sub].n]_vars

\* C17 witness: after the second batch the categorical accumulator still
\* holds 3, 1, 2 of the first batch, with 5 added, and the count went 3 to 5.
C17_Witness ==
    /\ pc = "pass"
    /\ processed = <<BatchA, BatchB>>
    /\ numeric_stats["num"].n = 5
    /\ categorical_stats["cat"].int_values = <<3, 1, 2, 5>>
    /\ text_stats["txt"].words = << <<"b">>, <<"a">>, <<"a", "b">> >>

\* whether the entries of a list are pairwise different
NoDuplicates(l) == \A i \in 1..Len(l) : \A j \in 1..Len(l) : i # j => l[i] # l[j]

\* C18: the finalized categorical and text vocabularies hold no entry twice,
\* and the record's size is the length of the vocabulary and the number of
\* distinct values (lowercased words) observed.
C18_NoDuplicateInVocab ==
    /\ (kind = "categorical" /\ colDtype \in {"int32", "string"}
            /\ ~FinalCategoricalRaises(cat, catDtype)) =>
           LET rec == FinalCategorical(cat, catDtype)
           IN  /\ rec.size = PyInt(Len(rec.vocab))
               /\ Len(rec.vocab) = Cardinality(Elems(fedV))
               /\ NoDuplicates(rec.vocab)
    /\ (kind = "text" /\ colDtype = "string") =>
           LET rec == FinalText(text, "string")
           IN  /\ rec.size = PyInt(Len(rec.vocab))
               /\ Len(rec.vocab) = Cardinality(
                      {RefLower(w) : w \in UNION {RefTokens(fedV[i]) : i \in 1..Len(fedV)}})
               /\ NoDuplicates(rec.vocab)

\* the accumulator that the engine state st holds for a feature
FeatureState(st, feature) ==
    IF feature \in DOMAIN st.numeric_stats THEN st.numeric_stats[feature]
    ELSE IF feature \in DOMAIN st.categorical_stats THEN st.categorical_stats[feature]
    ELSE IF feature \in DOMAIN st.text_stats THEN st.text_stats[feature]
    ELSE st.date_stats[feature]

\* every order in which the declared features can be visited
Orders ==
    {o \in [1..Len(DeclaredOrder) -> Elems(DeclaredOrder)] :
        \A i \in DOMAIN o : \A j \in DOMAIN o : i # j => o[i] # o[j]}

\* the per-feature updates of one batch, applied in the given order
RECURSIVE ApplyInOrder(_, _, _)
ApplyInOrder(st, order, batch) ==
    IF order = <<>> THEN st
    ELSE ApplyInOrder(UpdateFeature(st, Head(order), batch), Tail(order), batch)

\* C19: on every step that processed a batch, the update of one feature's
\* accumulator leaves the accumulator of every other feature as it was, and
\* the per-feature updates of the batch applied in any order give the engine
\* state that _process_batch gave.
C19_FeatureUpdatesCommute ==
    [][Len(processed') > Len(processed) =>
          LET batch == Project(processed'[Len(processed')], columns)
          IN  /\ \A f \in Elems(DeclaredOrder) : \A g \in Elems(DeclaredOrder) \ {f} :
                     FeatureState(UpdateFeature(EngineStats, f, batch), g)
                        = FeatureState(EngineStats, g)
              /\ \A order \in Orders :
                     ApplyInOrder(EngineStats, order, batch) = EngineStats']_vars

\* C19 witness: the second batch was processed: each of the four features'
\* accumulators holds its own column of both batches.
C19_Witness ==
    /\ pc = "pass"
    /\ processed = <<BatchB, BatchA>>
    /\ numeric_stats["num"].n = 5
    /\ categorical_stats["cat"].int_values = <<2, 5, 3, 1>>
    /\ text_stats["txt"].words = << <<"a">>, <<"b">>, <<"a", "b">> >>
    /\ date_stats["dt"]["year"].mean = <<10104, 5>>

\* the number of date rows of a sequence of batches
RECURSIVE DateRows(_, _)
DateRows(batches, feature) ==
    IF batches = <<>> THEN 0
    ELSE Len(Head(batches)[feature].data) + DateRows(Tail(batches), feature)

\* C20: in every state the date accumulator of a feature consists of exactly
\* the five children year, month_sin, month_cos, day_of_week_sin and
\* day_of_week_cos, each a Welford accumulator, and all five have the same
\* count, the number of date rows fed to it so far.
C20_DateChildrenSameCount ==
    \A f \in DOMAIN date_stats :
        /\ DOMAIN date_stats[f] = Elems(Subfields)
        /\ Cardinality(DOMAIN date_stats[f]) = 5
        /\ \A sub \in DOMAIN date_stats[f] :
               /\ DOMAIN date_stats[f][sub] = DOMAIN WelfordInit
               /\ WelfordCount(date_stats[f][sub]) = DateRows(processed, f)

\* C20 witness: batches of 3 and 2 date rows were fed: the five children
\* count 5 each, while their means differ.
C20_Witness ==
    /\ processed = <<BatchA, BatchB>>
    /\ \A sub \in Elems(Subfields) : date_stats["dt"][sub].n = 5
    /\ date_stats["dt"]["year"].mean = <<10104, 5>>
    /\ date_stats["dt"]["month_sin"].mean # date_stats["dt"]["day_of_week_cos"].mean

-----------------------------------------------------------------------------
(* Loading a report that is not a complete report *)

\* the fields of a record of each section but date_stats
RecordFields ==
    [numeric_stats     |-> {"mean", "count", "var", "dtype"},
     categorical_stats |-> {"size", "vocab", "dtype"},
     text_stats        |-> {"size", "vocab", "dtype"}]

\* a report with its four sections and, in the first three, every record
\* with its fields (the fields of a date record are not looked at)
WellFormedReport(report) ==
    /\ {"numeric_stats", "categorical_stats", "text_stats", "date_stats"} \subseteq DOMAIN report
    /\ \A c \in DOMAIN RecordFields : \A f \in DOMAIN report[c] :
           RecordFields[c] \subseteq DOMAIN report[c][f]

\* C15: a report file that does not parse, or that lacks a section or a
\* field of a record, makes the load fail with an error the caller sees; a
\* report that was loaded and returned has every section and field.
C15_CorruptReportRejected ==
    /\ (pc # "start" /\ ~overwrite_stats /\ startFile.state = "truncated") =>
           (pc = "failed" /\ raised = "JSONDecodeError" /\ returned = Unset)
    /\ (pc = "done" /\ ~passRan) => WellFormedReport(returned)

=============================================================================
